---- MODULE Spec2Model ----
(***************************************************************************)
(* ChConn (api/utils/sshutils/chconn.go): a net.Conn over an SSH channel.  *)
(*                                                                         *)
(* newChConn makes a net.Pipe, keeps both ends, and starts a goroutine     *)
(* running io.Copy(writer, ch).  Read and the read deadlines go to the     *)
(* reader end, Write goes to the embedded channel, Close closes channel,   *)
(* reader end, writer end and (exclusive) the parent connection under mu.  *)
(*                                                                         *)
(* The pipe ends follow net.Pipe: Close is once-only and returns nil; read *)
(* and write first test localDone, remoteDone and the deadline in that     *)
(* order and then select over the rendezvous and the same three signals,   *)
(* a select with several ready cases taking any of them.  The channel and  *)
(* the parent connection are the transport's: their results are inputs.    *)
(***************************************************************************)
EXTENDS Naturals, Sequences, FiniteSets

\* ---------------------------------------------------------------- bounds
MaxWritten == 2      \* bytes the peer writes into the channel
MaxCloseCalls == 2   \* Close calls over all callers

Closers == {"c1", "c2"}
WriteData == {<<8, 9>>}
\* buffer sizes a caller hands to Read: empty, smaller than, equal to and
\* larger than what the copy task can hold
BufSizes == 0..MaxWritten
Times == {"zero", "past", "future"}

Nil == "nil"

VARIABLES
    exclusive,       \* c.exclusive
    written,         \* every byte the peer wrote into the channel, in order
    chBuf,           \* bytes in the channel not yet returned by ch.Read
    peer,            \* "open" or "closed" (the peer closed, or the transport failed)
    chClosed,        \* c.Channel.Close has been called
    chCloseCalls,    \* calls of c.Channel.Close
    connClosed,      \* c.conn.Close has been called
    connCloseCalls,  \* calls of c.conn.Close
    reader,          \* c.reader: [done, rd]
    writer,          \* c.writer: [done, wd]
    copy,            \* the io.Copy goroutine: [pc, buf, err]
    mu,              \* c.mu: "free" or the Close caller holding it
    cl,              \* the Close callers: [pc, errors, att, late]
    closeCalls,      \* Close calls begun
    closedOnce,      \* some Close call has returned
    rd,              \* the Read caller: [pc, size, tmo]
    delivered,       \* every byte Read returned, in order
    obs              \* the call that returned last, and what it returned

vars == <<exclusive, written, chBuf, peer, chClosed, chCloseCalls,
          connClosed, connCloseCalls, reader, writer, copy, mu, cl,
          closeCalls, closedOnce, rd, delivered, obs>>

chanVars == <<written, chBuf, peer, chClosed, chCloseCalls>>
connVars == <<connClosed, connCloseCalls>>
pipeVars == <<reader, writer>>
closeVars == <<mu, cl, closeCalls, closedOnce>>

\* ---------------------------------------------------------------- helpers
Min(a, b) == IF a <= b THEN a ELSE b

IsPrefix(s, t) == Len(s) <= Len(t) /\ SubSeq(t, 1, Len(s)) = s

Drop(s, k) == SubSeq(s, k + 1, Len(s))

\* faulty variant: only the first failure is reported
NewAggregateFirstOnly(errs) ==
    IF SelectSeq(errs, LAMBDA e : e # Nil) = <<>> THEN <<>>
    ELSE <<Head(SelectSeq(errs, LAMBDA e : e # Nil))>>

\* trace.NewAggregate: the non-nil errors; none of them is the nil error (<<>>)
NewAggregate(errs) == SelectSeq(errs, LAMBDA e : e # Nil)

\* if err != nil { errors = append(errors, err) }
AppendErr(errs, e) == IF e # Nil THEN Append(errs, e) ELSE errs

\* pipeDeadline.set(t): zero clears, a future time arms the timer, a past time
\* closes the cancel channel at once
DeadlineSet(t) ==
    CASE t = "zero" -> "none"
      [] t = "future" -> "armed"
      [] OTHER -> "expired"

\* the first switch of pipe.read on the reader end
PipeReadCheck ==
    IF reader.done THEN "ErrClosedPipe"
    ELSE IF writer.done THEN "EOF"
    ELSE IF reader.rd = "expired" THEN "ErrDeadlineExceeded"
    ELSE Nil

\* the first switch of pipe.write on the writer end
PipeWriteCheck ==
    IF writer.done THEN "ErrClosedPipe"
    ELSE IF reader.done THEN "ErrClosedPipe"
    ELSE IF writer.wd = "expired" THEN "ErrDeadlineExceeded"
    ELSE Nil

\* pipe.SetDeadline / SetReadDeadline on the reader end
PipeSetDeadlineErr ==
    IF reader.done \/ writer.done THEN "ErrClosedPipe" ELSE Nil

\* ssh channel Close: a closed channel reports EOF, an open one what the
\* transport reports
ChannelCloseResult(out) == IF chClosed THEN "EOF" ELSE out

\* ssh channel Write: a closed channel reports EOF and writes nothing
ChannelWriteResult(data, out) ==
    IF chClosed \/ peer # "open" THEN [n |-> 0, err |-> "EOF"]
    ELSE IF out = Nil THEN [n |-> Len(data), err |-> Nil]
    ELSE [n |-> 0, err |-> out]

\* parent connection Close: a closed connection reports an error
ConnCloseResult(out) == IF connClosed THEN "ErrConnClosed" ELSE out

\* what c.conn.LocalAddr() and c.conn.RemoteAddr() return
ConnLocalAddr == "conn.local"

ConnRemoteAddr == "conn.remote"

\* results the transport can give for Channel.Close, conn.Close, Channel.Write
ChCloseOutcomes == {Nil, "ErrChClose"}

ConnCloseOutcomes == {Nil, "ErrConnClose"}

ChWriteOutcomes == {Nil, "ErrChWrite"}

\* how ch.Read ends for io.Copy: io.EOF (nil) or another error
ChReadEndOutcomes == {Nil, "ErrChannel"}

IdleCloser == [pc |-> "idle", errors |-> <<>>, att |-> <<>>, late |-> FALSE]

IdleReader == [pc |-> "idle", size |-> 0, tmo |-> FALSE]

\* obs: op the call, n/err/addr/res its results (res the aggregate of Close),
\* ch the channel's own report of a Write, att the closes a Close attempted
\* with their results, late whether the call began after a Close had returned,
\* open and dl the pipe and the read deadline as a Read found them, blocked
\* whether the Read went through the select, t the time a deadline call that
\* returned nil was given
NoObs == [op |-> "none", n |-> 0, err |-> Nil, addr |-> "none", t |-> "none",
          ch |-> [n |-> 0, err |-> Nil], res |-> <<>>, att |-> <<>>,
          late |-> FALSE, open |-> TRUE, dl |-> "none", blocked |-> FALSE]

\* no call has a result pending: a call that returns leaves its result in obs
\* and its caller takes it (Return) before any other step
Ready == obs = NoObs

\* ---------------------------------------------------------------- Init
Init ==
    /\ exclusive \in BOOLEAN
    /\ written = <<>>
    /\ chBuf = <<>>
    /\ peer = "open"
    /\ chClosed = FALSE
    /\ chCloseCalls = 0
    /\ connClosed = FALSE
    /\ connCloseCalls = 0
    /\ reader = [done |-> FALSE, rd |-> "none"]
    /\ writer = [done |-> FALSE, wd |-> "none"]
    /\ copy = [pc |-> "read", buf |-> <<>>, err |-> Nil]
    /\ mu = "free"
    /\ cl = [c \in Closers |-> IdleCloser]
    /\ closeCalls = 0
    /\ closedOnce = FALSE
    /\ rd = IdleReader
    /\ delivered = <<>>
    /\ obs = NoObs

\* ---------------------------------------------------------------- the peer
\* the remote peer writes the next byte of its stream into the channel; the
\* bytes of the stream are pairwise distinct (byte i is i), so that a lost,
\* repeated or reordered byte shows
PeerWrite ==
    /\ Ready
    /\ peer = "open"
    /\ Len(written) < MaxWritten
    /\ written' = Append(written, Len(written) + 1)
    /\ chBuf' = Append(chBuf, Len(written) + 1)
    /\ UNCHANGED <<exclusive, peer, chClosed, chCloseCalls, connVars,
                   pipeVars, copy, closeVars, rd, delivered, obs>>

\* the remote peer closes the channel, or the transport fails: ch.Read
\* reports EOF or an error once the pending bytes are drained
PeerClose ==
    /\ Ready
    /\ peer = "open"
    /\ peer' = "closed"
    /\ UNCHANGED <<exclusive, written, chBuf, chClosed, chCloseCalls,
                   connVars, pipeVars, copy, closeVars, rd, delivered, obs>>

\* the timer armed by a read deadline fires: it closes the cancel channel a
\* Read in its select is waiting on
Tick ==
    /\ Ready
    /\ reader.rd = "armed"
    /\ reader' = [reader EXCEPT !.rd = "expired"]
    /\ rd' = IF rd.pc = "select" THEN [rd EXCEPT !.tmo = TRUE] ELSE rd
    /\ UNCHANGED <<exclusive, chanVars, connVars, writer, copy, closeVars,
                   delivered, obs>>

\* ---------------------------------------------------------------- io.Copy
\* faulty variant: the goroutine reads on while its chunk waits in the pipe
CopyReadAhead(k) ==
    /\ Ready
    /\ copy.pc \in {"read", "select"}
    /\ k \in 1..Len(chBuf)
    /\ copy' = [copy EXCEPT !.pc = IF copy.pc = "read" THEN "write" ELSE @,
                            !.buf = @ \o SubSeq(chBuf, 1, k)]
    /\ chBuf' = Drop(chBuf, k)
    /\ UNCHANGED <<exclusive, written, peer, chClosed, chCloseCalls,
                   connVars, pipeVars, closeVars, rd, delivered, obs>>

\* nr, er := src.Read(buf) with nr > 0: some or all of the pending bytes (the
\* 32 KiB buffer of io.Copy holds more than the peer writes here)
CopyRead(k) ==
    /\ Ready
    /\ copy.pc = "read"
    /\ k \in 1..Len(chBuf)
    /\ copy' = [copy EXCEPT !.pc = "write", !.buf = SubSeq(chBuf, 1, k)]
    /\ chBuf' = Drop(chBuf, k)
    /\ UNCHANGED <<exclusive, written, peer, chClosed, chCloseCalls,
                   connVars, pipeVars, closeVars, rd, delivered, obs>>

\* faulty variant: the goroutine closes the writer end when the copy ends
CopyReadEndClosesWriter(e) ==
    /\ Ready
    /\ copy.pc = "read"
    /\ chBuf = <<>>
    /\ chClosed \/ peer # "open"
    /\ copy' = [copy EXCEPT !.pc = "done", !.err = e]
    /\ writer' = [writer EXCEPT !.done = TRUE]
    /\ UNCHANGED <<exclusive, chanVars, connVars, reader, closeVars,
                   rd, delivered, obs>>

\* faulty variant: a Read of the channel blocked before Close stays blocked
CopyReadEndPeerOnly(e) ==
    /\ Ready
    /\ copy.pc = "read"
    /\ chBuf = <<>>
    /\ peer # "open"
    /\ copy' = [copy EXCEPT !.pc = "done", !.err = e]
    /\ UNCHANGED <<exclusive, chanVars, connVars, pipeVars, closeVars,
                   rd, delivered, obs>>

\* src.Read reports EOF (io.Copy returns nil) or an error (io.Copy returns
\* it): the goroutine ends, closing nothing
CopyReadEnd(e) ==
    /\ Ready
    /\ copy.pc = "read"
    /\ chBuf = <<>>
    /\ chClosed \/ peer # "open"
    /\ copy' = [copy EXCEPT !.pc = "done", !.err = e]
    /\ UNCHANGED <<exclusive, chanVars, connVars, pipeVars, closeVars,
                   rd, delivered, obs>>

\* dst.Write(buf[0:nr]): the first switch of pipe.write
CopyWriteBegin ==
    /\ Ready
    /\ copy.pc = "write"
    /\ copy' = IF PipeWriteCheck = Nil
               THEN [copy EXCEPT !.pc = "select"]
               ELSE [copy EXCEPT !.pc = "done", !.err = PipeWriteCheck]
    /\ UNCHANGED <<exclusive, chanVars, connVars, pipeVars, closeVars,
                   rd, delivered, obs>>

\* the select of pipe.write takes localDone, remoteDone or the deadline
CopyWriteWake ==
    /\ Ready
    /\ copy.pc = "select"
    /\ PipeWriteCheck # Nil
    /\ copy' = [copy EXCEPT !.pc = "done", !.err = PipeWriteCheck]
    /\ UNCHANGED <<exclusive, chanVars, connVars, pipeVars, closeVars,
                   rd, delivered, obs>>

\* ---------------------------------------------------------------- Read
\* what a Read that returns n and err leaves in obs
ReadObs(n, err, blocked) ==
    [NoObs EXCEPT !.op = "Read", !.n = n, !.err = err, !.blocked = blocked,
                  !.late = IF blocked THEN FALSE ELSE closedOnce,
                  !.open = IF blocked THEN TRUE
                           ELSE ~reader.done /\ ~writer.done,
                  !.dl = IF blocked THEN "none" ELSE reader.rd]

\* faulty variant: Read is the embedded channel's Read, next to the copy goroutine
ReadCallFromChannel(size) ==
    /\ Ready
    /\ rd.pc = "idle"
    /\ size > 0
    /\ chBuf # <<>>
    /\ LET n == Min(size, Len(chBuf))
       IN /\ delivered' = delivered \o SubSeq(chBuf, 1, n)
          /\ chBuf' = Drop(chBuf, n)
          /\ obs' = ReadObs(n, Nil, FALSE)
    /\ UNCHANGED <<exclusive, written, peer, chClosed, chCloseCalls, connVars,
                   pipeVars, copy, closeVars, rd>>

\* c.reader.Read(data): the first switch of pipe.read
ReadCall(size) ==
    /\ Ready
    /\ rd.pc = "idle"
    /\ LET e == PipeReadCheck
       IN IF e = Nil
          THEN /\ rd' = [pc |-> "select", size |-> size, tmo |-> FALSE]
               /\ obs' = NoObs
          ELSE /\ rd' = rd
               /\ obs' = ReadObs(0, e, FALSE)
    /\ UNCHANGED <<exclusive, chanVars, connVars, pipeVars, copy, closeVars,
                   delivered>>

\* faulty variant: the goroutine copies one chunk and ends
ReadTransferOneChunk ==
    /\ Ready
    /\ rd.pc = "select"
    /\ copy.pc = "select"
    /\ LET nr == Min(rd.size, Len(copy.buf))
       IN /\ rd' = IdleReader
          /\ obs' = ReadObs(nr, Nil, TRUE)
          /\ delivered' = delivered \o SubSeq(copy.buf, 1, nr)
          /\ copy' = IF nr = Len(copy.buf)
                     THEN [copy EXCEPT !.pc = "done", !.buf = <<>>]
                     ELSE [copy EXCEPT !.buf = Drop(copy.buf, nr)]
    /\ UNCHANGED <<exclusive, chanVars, connVars, pipeVars, closeVars>>

\* the select of pipe.read meets the select of pipe.write: nr := copy(b, bw),
\* the writer keeps b[nr:] and returns to io.Copy once it is empty
ReadTransfer ==
    /\ Ready
    /\ rd.pc = "select"
    /\ copy.pc = "select"
    /\ LET nr == Min(rd.size, Len(copy.buf))
       IN /\ rd' = IdleReader
          /\ obs' = ReadObs(nr, Nil, TRUE)
          /\ delivered' = delivered \o SubSeq(copy.buf, 1, nr)
          /\ copy' = IF nr = Len(copy.buf)
                     THEN [copy EXCEPT !.pc = "read", !.buf = <<>>]
                     ELSE [copy EXCEPT !.buf = Drop(copy.buf, nr)]
    /\ UNCHANGED <<exclusive, chanVars, connVars, pipeVars, closeVars>>

\* the select of pipe.read takes localDone
ReadWakeLocalDone ==
    /\ Ready
    /\ rd.pc = "select"
    /\ reader.done
    /\ rd' = IdleReader
    /\ obs' = ReadObs(0, "ErrClosedPipe", TRUE)
    /\ UNCHANGED <<exclusive, chanVars, connVars, pipeVars, copy, closeVars,
                   delivered>>

\* the select of pipe.read takes remoteDone
ReadWakeRemoteDone ==
    /\ Ready
    /\ rd.pc = "select"
    /\ writer.done
    /\ rd' = IdleReader
    /\ obs' = ReadObs(0, "EOF", TRUE)
    /\ UNCHANGED <<exclusive, chanVars, connVars, pipeVars, copy, closeVars,
                   delivered>>

\* faulty variant: a Read that times out takes the chunk offered and drops it
ReadWakeDeadlineDrops ==
    /\ Ready
    /\ rd.pc = "select"
    /\ rd.tmo
    /\ rd' = IdleReader
    /\ obs' = ReadObs(0, "ErrDeadlineExceeded", TRUE)
    /\ copy' = IF copy.pc = "select"
               THEN [copy EXCEPT !.pc = "read", !.buf = <<>>]
               ELSE copy
    /\ UNCHANGED <<exclusive, chanVars, connVars, pipeVars, closeVars,
                   delivered>>

\* the select of pipe.read takes the cancel channel of the read deadline
ReadWakeDeadline ==
    /\ Ready
    /\ rd.pc = "select"
    /\ rd.tmo
    /\ rd' = IdleReader
    /\ obs' = ReadObs(0, "ErrDeadlineExceeded", TRUE)
    /\ UNCHANGED <<exclusive, chanVars, connVars, pipeVars, copy, closeVars,
                   delivered>>

\* ---------------------------------------------------------------- Close
\* faulty variant: Close takes no guard
MuFreeAlways == TRUE

\* c.mu.Lock(): the guard
MuFree == mu = "free"

\* a caller enters Close and comes to c.mu.Lock()
CloseCall(c) ==
    /\ Ready
    /\ cl[c].pc = "idle"
    /\ closeCalls < MaxCloseCalls
    /\ closeCalls' = closeCalls + 1
    /\ cl' = [cl EXCEPT ![c] = [IdleCloser EXCEPT !.pc = "lock",
                                                  !.late = closedOnce]]
    /\ UNCHANGED <<exclusive, chanVars, connVars, pipeVars, copy, mu,
                   closedOnce, rd, delivered, obs>>

\* faulty variant: a Close call on a closed ChConn returns nil at once
CloseLockUnlessClosed(c) ==
    /\ Ready
    /\ cl[c].pc = "lock"
    /\ MuFree
    /\ IF closedOnce
       THEN /\ cl' = [cl EXCEPT ![c] = IdleCloser]
            /\ obs' = [NoObs EXCEPT !.op = "Close", !.late = cl[c].late]
            /\ mu' = mu
       ELSE /\ cl' = [cl EXCEPT ![c].pc = "ch"]
            /\ mu' = c
            /\ obs' = obs
    /\ UNCHANGED <<exclusive, chanVars, connVars, pipeVars, copy, closeCalls,
                   closedOnce, rd, delivered>>

\* c.mu.Lock() lets the caller in once the guard is free
CloseLock(c) ==
    /\ Ready
    /\ cl[c].pc = "lock"
    /\ MuFree
    /\ mu' = c
    /\ cl' = [cl EXCEPT ![c].pc = "ch"]
    /\ UNCHANGED <<exclusive, chanVars, connVars, pipeVars, copy, closeCalls,
                   closedOnce, rd, delivered, obs>>

\* what a Close that returns the aggregate of errs leaves in obs
CloseObs(c, errs, att) ==
    [NoObs EXCEPT !.op = "Close", !.res = NewAggregate(errs), !.att = att,
                  !.late = cl[c].late]

\* faulty variant: Close returns at the first failure
CloseChannelShortCircuit(c, out) ==
    /\ Ready
    /\ cl[c].pc = "ch"
    /\ LET e == ChannelCloseResult(out)
       IN IF e # Nil
          THEN /\ cl' = [cl EXCEPT ![c] = IdleCloser]
               /\ obs' = CloseObs(c, <<e>>, <<<<"channel", e>>>>)
               /\ mu' = "free"
               /\ closedOnce' = TRUE
          ELSE /\ cl' = [cl EXCEPT ![c].pc = "reader",
                                   ![c].att = Append(@, <<"channel", e>>)]
               /\ UNCHANGED <<mu, closedOnce, obs>>
    /\ chClosed' = TRUE
    /\ chCloseCalls' = chCloseCalls + 1
    /\ UNCHANGED <<exclusive, written, chBuf, peer, connVars, pipeVars,
                   copy, closeCalls, rd, delivered>>

\* faulty variant: Close leaves the channel open
CloseChannelSkipped(c, out) ==
    /\ Ready
    /\ cl[c].pc = "ch"
    /\ cl' = [cl EXCEPT ![c].pc = "reader"]
    /\ UNCHANGED <<exclusive, chanVars, connVars, pipeVars, copy, mu,
                   closeCalls, closedOnce, rd, delivered, obs>>

\* faulty variant: Close closes the channel only while it is open
CloseChannelOnce(c, out) ==
    /\ Ready
    /\ cl[c].pc = "ch"
    /\ LET e == ChannelCloseResult(out)
       IN cl' = [cl EXCEPT ![c].pc = "reader",
                           ![c].errors = IF chClosed THEN @ ELSE AppendErr(@, e),
                           ![c].att = IF chClosed THEN @
                                      ELSE Append(@, <<"channel", e>>)]
    /\ chClosed' = TRUE
    /\ chCloseCalls' = IF chClosed THEN chCloseCalls ELSE chCloseCalls + 1
    /\ UNCHANGED <<exclusive, written, chBuf, peer, connVars, pipeVars,
                   copy, mu, closeCalls, closedOnce, rd, delivered, obs>>

\* if err := c.Channel.Close(); err != nil { errors = append(errors, err) }
CloseChannel(c, out) ==
    /\ Ready
    /\ cl[c].pc = "ch"
    /\ LET e == ChannelCloseResult(out)
       IN cl' = [cl EXCEPT ![c].pc = "reader",
                           ![c].errors = AppendErr(@, e),
                           ![c].att = Append(@, <<"channel", e>>)]
    /\ chClosed' = TRUE
    /\ chCloseCalls' = chCloseCalls + 1
    /\ UNCHANGED <<exclusive, written, chBuf, peer, connVars, pipeVars,
                   copy, mu, closeCalls, closedOnce, rd, delivered, obs>>

\* faulty variant: Close leaves the reader end open
CloseReaderSkipped(c) ==
    /\ Ready
    /\ cl[c].pc = "reader"
    /\ cl' = [cl EXCEPT ![c].pc = "writer"]
    /\ UNCHANGED <<exclusive, chanVars, connVars, pipeVars, copy, mu,
                   closeCalls, closedOnce, rd, delivered, obs>>

\* if err := c.reader.Close(); err != nil { ... }: pipe.Close returns nil
CloseReader(c) ==
    /\ Ready
    /\ cl[c].pc = "reader"
    /\ reader' = [reader EXCEPT !.done = TRUE]
    /\ cl' = [cl EXCEPT ![c].pc = "writer",
                        ![c].errors = AppendErr(@, Nil),
                        ![c].att = Append(@, <<"reader", Nil>>)]
    /\ UNCHANGED <<exclusive, chanVars, connVars, writer, copy, mu, closeCalls,
                   closedOnce, rd, delivered, obs>>

\* faulty variant: the exclusive flag is not looked at
ReturnsBeforeConnNever == FALSE

\* if !c.exclusive: Close returns after the writer end
ReturnsBeforeConn == ~exclusive

\* faulty variant: Close waits for the copy goroutine before the writer end
CloseWriterAfterCopy(c) ==
    /\ Ready
    /\ cl[c].pc = "writer"
    /\ copy.pc = "done"
    /\ writer' = [writer EXCEPT !.done = TRUE]
    /\ LET errs == AppendErr(cl[c].errors, Nil)
           att == Append(cl[c].att, <<"writer", Nil>>)
       IN IF ReturnsBeforeConn
          THEN /\ cl' = [cl EXCEPT ![c] = IdleCloser]
               /\ obs' = CloseObs(c, errs, att)
               /\ mu' = "free"
               /\ closedOnce' = TRUE
          ELSE /\ cl' = [cl EXCEPT ![c].pc = "conn", ![c].errors = errs,
                                   ![c].att = att]
               /\ UNCHANGED <<mu, closedOnce, obs>>
    /\ UNCHANGED <<exclusive, chanVars, connVars, reader, copy, closeCalls,
                   rd, delivered>>

\* if err := c.writer.Close(); err != nil { ... }
\* if !c.exclusive { return trace.NewAggregate(errors...) }
CloseWriter(c) ==
    /\ Ready
    /\ cl[c].pc = "writer"
    /\ writer' = [writer EXCEPT !.done = TRUE]
    /\ LET errs == AppendErr(cl[c].errors, Nil)
           att == Append(cl[c].att, <<"writer", Nil>>)
       IN IF ReturnsBeforeConn
          THEN /\ cl' = [cl EXCEPT ![c] = IdleCloser]
               /\ obs' = CloseObs(c, errs, att)
               /\ mu' = "free"
               /\ closedOnce' = TRUE
          ELSE /\ cl' = [cl EXCEPT ![c].pc = "conn", ![c].errors = errs,
                                   ![c].att = att]
               /\ UNCHANGED <<mu, closedOnce, obs>>
    /\ UNCHANGED <<exclusive, chanVars, connVars, reader, copy, closeCalls,
                   rd, delivered>>

\* if err := c.conn.Close(); err != nil { ... }
\* return trace.NewAggregate(errors...)
CloseConn(c, out) ==
    /\ Ready
    /\ cl[c].pc = "conn"
    /\ LET e == ConnCloseResult(out)
       IN obs' = CloseObs(c, AppendErr(cl[c].errors, e),
                          Append(cl[c].att, <<"conn", e>>))
    /\ cl' = [cl EXCEPT ![c] = IdleCloser]
    /\ connClosed' = TRUE
    /\ connCloseCalls' = connCloseCalls + 1
    /\ mu' = "free"
    /\ closedOnce' = TRUE
    /\ UNCHANGED <<exclusive, chanVars, pipeVars, copy, closeCalls, rd,
                   delivered>>

\* ---------------------------------------------------------------- the rest
\* faulty variant: Write gives up when the read deadline has expired
WriteUnderReadDeadline(data, out) ==
    /\ Ready
    /\ LET r == ChannelWriteResult(data, out)
       IN obs' = IF reader.rd = "expired"
                 THEN [NoObs EXCEPT !.op = "Write",
                                    !.err = "ErrDeadlineExceeded",
                                    !.ch = r, !.late = closedOnce]
                 ELSE [NoObs EXCEPT !.op = "Write", !.n = r.n, !.err = r.err,
                                    !.ch = r, !.late = closedOnce]
    /\ UNCHANGED <<exclusive, chanVars, connVars, pipeVars, copy, closeVars,
                   rd, delivered>>

\* Write is the embedded ssh.Channel's Write
Write(data, out) ==
    /\ Ready
    /\ LET r == ChannelWriteResult(data, out)
       IN obs' = [NoObs EXCEPT !.op = "Write", !.n = r.n, !.err = r.err,
                               !.ch = r, !.late = closedOnce]
    /\ UNCHANGED <<exclusive, chanVars, connVars, pipeVars, copy, closeVars,
                   rd, delivered>>

\* pipe.SetDeadline / pipe.SetReadDeadline on the reader end; the write
\* deadline of the reader end, which SetDeadline sets too, is read by nothing
PipeSetReadDeadline(op, t) ==
    /\ Ready
    /\ LET e == PipeSetDeadlineErr
       IN /\ obs' = [NoObs EXCEPT !.op = op, !.err = e,
                                  !.t = IF e = Nil THEN t ELSE "none",
                                  !.late = closedOnce]
          /\ IF e = Nil
             THEN /\ reader' = [reader EXCEPT !.rd = DeadlineSet(t)]
                  /\ rd' = IF rd.pc = "select" /\ DeadlineSet(t) = "expired"
                           THEN [rd EXCEPT !.tmo = TRUE] ELSE rd
             ELSE UNCHANGED <<reader, rd>>
    /\ UNCHANGED <<exclusive, chanVars, connVars, writer, copy, closeVars,
                   delivered>>

\* faulty variant: SetDeadline is ignored like SetWriteDeadline
SetDeadlineIgnored(t) ==
    /\ Ready
    /\ obs' = [NoObs EXCEPT !.op = "SetDeadline", !.t = t,
                            !.late = closedOnce]
    /\ UNCHANGED <<exclusive, chanVars, connVars, pipeVars, copy, closeVars,
                   rd, delivered>>

\* return c.reader.SetDeadline(t)
SetDeadline(t) == PipeSetReadDeadline("SetDeadline", t)

\* faulty variant: SetReadDeadline sets the deadline of the writer end too
SetReadDeadlineBothEnds(t) ==
    /\ Ready
    /\ LET e == PipeSetDeadlineErr
       IN /\ obs' = [NoObs EXCEPT !.op = "SetReadDeadline", !.err = e,
                                  !.t = IF e = Nil THEN t ELSE "none",
                                  !.late = closedOnce]
          /\ IF e = Nil
             THEN /\ reader' = [reader EXCEPT !.rd = DeadlineSet(t)]
                  /\ writer' = [writer EXCEPT !.wd = DeadlineSet(t)]
                  /\ rd' = IF rd.pc = "select" /\ DeadlineSet(t) = "expired"
                           THEN [rd EXCEPT !.tmo = TRUE] ELSE rd
             ELSE UNCHANGED <<reader, writer, rd>>
    /\ UNCHANGED <<exclusive, chanVars, connVars, copy, closeVars,
                   delivered>>

\* return c.reader.SetReadDeadline(t)
SetReadDeadline(t) == PipeSetReadDeadline("SetReadDeadline", t)

\* faulty variant: SetWriteDeadline is passed to the reader end like the others
SetWriteDeadlineDelegated(t) == PipeSetReadDeadline("SetWriteDeadline", t)

\* return nil
SetWriteDeadline(t) ==
    /\ Ready
    /\ obs' = [NoObs EXCEPT !.op = "SetWriteDeadline", !.t = t,
                            !.late = closedOnce]
    /\ UNCHANGED <<exclusive, chanVars, connVars, pipeVars, copy, closeVars,
                   rd, delivered>>

\* return c.conn.LocalAddr()
LocalAddr ==
    /\ Ready
    /\ obs' = [NoObs EXCEPT !.op = "LocalAddr", !.addr = ConnLocalAddr,
                            !.late = closedOnce]
    /\ UNCHANGED <<exclusive, chanVars, connVars, pipeVars, copy, closeVars,
                   rd, delivered>>

\* return c.conn.RemoteAddr()
RemoteAddr ==
    /\ Ready
    /\ obs' = [NoObs EXCEPT !.op = "RemoteAddr", !.addr = ConnRemoteAddr,
                            !.late = closedOnce]
    /\ UNCHANGED <<exclusive, chanVars, connVars, pipeVars, copy, closeVars,
                   rd, delivered>>

\* the caller takes the result of the call that returned
Return ==
    /\ obs # NoObs
    /\ obs' = NoObs
    /\ UNCHANGED <<exclusive, chanVars, connVars, pipeVars, copy, closeVars,
                   rd, delivered>>

\* ---------------------------------------------------------------- Next
Next ==
    \/ PeerWrite
    \/ PeerClose
    \/ Tick
    \/ \E k \in 1..MaxWritten : CopyRead(k)
    \/ \E e \in ChReadEndOutcomes : CopyReadEnd(e)
    \/ CopyWriteBegin
    \/ CopyWriteWake
    \/ \E size \in BufSizes : ReadCall(size)
    \/ ReadTransfer
    \/ ReadWakeLocalDone
    \/ ReadWakeRemoteDone
    \/ ReadWakeDeadline
    \/ \E c \in Closers : CloseCall(c)
    \/ \E c \in Closers : CloseLock(c)
    \/ \E c \in Closers, out \in ChCloseOutcomes : CloseChannel(c, out)
    \/ \E c \in Closers : CloseReader(c)
    \/ \E c \in Closers : CloseWriter(c)
    \/ \E c \in Closers, out \in ConnCloseOutcomes : CloseConn(c, out)
    \/ \E data \in WriteData, out \in ChWriteOutcomes : Write(data, out)
    \/ \E t \in Times : SetDeadline(t)
    \/ \E t \in Times : SetReadDeadline(t)
    \/ \E t \in Times : SetWriteDeadline(t)
    \/ LocalAddr
    \/ RemoteAddr
    \/ Return

Spec == Init /\ [][Next]_vars

\* the next step of Close call c, from c.mu.Lock() to its return
CloseStep(c) ==
    \/ CloseLock(c)
    \/ \E out \in ChCloseOutcomes : CloseChannel(c, out)
    \/ CloseReader(c)
    \/ CloseWriter(c)
    \/ \E out \in ConnCloseOutcomes : CloseConn(c, out)

\* one step of the goroutine started by go io.Copy(writer, ch)
CopyStep ==
    \/ \E k \in 1..MaxWritten : CopyRead(k)
    \/ \E e \in ChReadEndOutcomes : CopyReadEnd(e)
    \/ CopyWriteBegin
    \/ CopyWriteWake

\* the steps that touch the stream: every step of Next but the calls that
\* change nothing of the ChConn (Write, SetWriteDeadline, LocalAddr,
\* RemoteAddr)
StreamNext ==
    \/ PeerWrite
    \/ PeerClose
    \/ Tick
    \/ CopyStep
    \/ \E size \in BufSizes : ReadCall(size)
    \/ ReadTransfer
    \/ ReadWakeLocalDone
    \/ ReadWakeRemoteDone
    \/ ReadWakeDeadline
    \/ \E c \in Closers : CloseCall(c)
    \/ \E c \in Closers : CloseStep(c)
    \/ \E t \in Times : SetDeadline(t)
    \/ \E t \in Times : SetReadDeadline(t)
    \/ Return

\* the scheduler does not leave the goroutines that can step waiting for
\* ever: a returned call is taken by its caller, and the copy goroutine and
\* the Close calls in progress are not all passed over for ever
FairSpec ==
    /\ Init /\ [][StreamNext]_vars
    /\ WF_vars(Return)
    /\ SF_vars(CopyStep \/ \E c \in Closers : CloseStep(c))

\* the steps of a ChConn on which Close is never called and no read deadline
\* expires: the deadlines set are the zero time or lie in a future that does
\* not come
OpenNext ==
    \/ PeerWrite
    \/ PeerClose
    \/ \E k \in 1..MaxWritten : CopyRead(k)
    \/ \E e \in ChReadEndOutcomes : CopyReadEnd(e)
    \/ CopyWriteBegin
    \/ \E size \in BufSizes : ReadCall(size)
    \/ ReadTransfer
    \/ \E data \in WriteData, out \in ChWriteOutcomes : Write(data, out)
    \/ \E t \in Times \ {"past"} : SetDeadline(t)
    \/ \E t \in Times \ {"past"} : SetReadDeadline(t)
    \/ \E t \in Times : SetWriteDeadline(t)
    \/ LocalAddr
    \/ RemoteAddr
    \/ Return

\* the caller keeps issuing Reads into a buffer with room, the pipe lets a
\* Read and a write that wait for each other meet, and the scheduler runs
\* the copy goroutine
OpenFairSpec ==
    /\ Init /\ [][OpenNext]_vars
    /\ WF_vars(Return)
    /\ SF_vars(CopyStep)
    /\ SF_vars(\E size \in BufSizes \ {0} : ReadCall(size))
    /\ SF_vars(ReadTransfer)

\* ================================================================ claims
coreVars == <<exclusive, chanVars, connVars, pipeVars, copy, closeVars, rd,
              delivered>>

\* the errors a torn-down stream gives a Read
StreamClosedErrors == {"ErrClosedPipe", "EOF"}

\* Close calls that have returned
CloseReturns == closeCalls - Cardinality({c \in Closers : cl[c].pc # "idle"})

\* the non-nil results of the closes a Close attempted, in order
Failures(att) ==
    LET f == SelectSeq(att, LAMBDA a : a[2] # Nil)
    IN [i \in 1..Len(f) |-> f[i][2]]

\* the resources a Close attempted, in order
Attempted(att) == [i \in 1..Len(att) |-> att[i][1]]

\* C1: the bytes Read has returned so far, concatenated, are a prefix of the
\* bytes the peer wrote into the channel
C1_DeliveredIsPrefix == IsPrefix(delivered, written)

\* a Read has just returned the last byte of a stream of at least two bytes,
\* after a Close call was begun and with a read deadline armed or expired
C1_Witness ==
    /\ obs.op = "Read" /\ obs.n > 0
    /\ Len(delivered) >= 2 /\ delivered = written
    /\ closeCalls > 0
    /\ reader.rd # "none"

\* C2: with exclusive = false no Close call, in any sequence or interleaving
\* and whatever fails, calls Close on the parent connection
C2_SharedParentStaysOpen == ~exclusive => connCloseCalls = 0 /\ ~connClosed

\* a second Close, begun after the first returned, has returned a failure on
\* a shared connection
C2_Witness ==
    /\ ~exclusive
    /\ obs.op = "Close" /\ obs.late /\ obs.res # <<>>
    /\ closeCalls >= 2

\* C3: with exclusive = true every Close call that has returned has called
\* Close on the parent connection, whatever failed before
C3_ExclusiveClosesParent ==
    exclusive => /\ connCloseCalls = CloseReturns
                 /\ CloseReturns > 0 => connClosed

\* an exclusive Close has returned after its channel close failed
C3_Witness ==
    /\ exclusive
    /\ obs.op = "Close"
    /\ obs.att[1] = <<"channel", "ErrChClose">>
    /\ connCloseCalls = 1

\* C4: Close attempts channel, reader end, writer end (and the parent when
\* exclusive) and returns exactly the failures of these attempts, one entry
\* each and in order: nil if and only if nothing failed
C4_CloseAggregatesAll ==
    obs.op = "Close" =>
        /\ Attempted(obs.att) =
               IF exclusive THEN <<"channel", "reader", "writer", "conn">>
               ELSE <<"channel", "reader", "writer">>
        /\ obs.res = Failures(obs.att)
        /\ (obs.res = <<>>) <=> (\A i \in DOMAIN obs.att : obs.att[i][2] = Nil)

\* an exclusive Close has returned both the channel's and the parent's failure
C4_Witness ==
    /\ obs.op = "Close"
    /\ obs.res = <<"ErrChClose", "ErrConnClose">>

\* C5: a Read begun after a Close call returned returns at once, with no data
\* and the closed-pipe error; a Read found in its select after a Close call
\* returned has the closed-pipe case of the select ready
C5_ReadAfterClose ==
    /\ (obs.op = "Read" /\ obs.late) =>
           obs.n = 0 /\ obs.err = "ErrClosedPipe" /\ ~obs.blocked
    /\ (closedOnce /\ rd.pc = "select") => reader.done

\* a Read begun after Close has returned while the copy goroutine held bytes
\* it never handed over and the read deadline had expired
C5_Witness ==
    /\ obs.op = "Read" /\ obs.late /\ obs.dl = "expired"
    /\ copy.buf # <<>>

\* a case of the select of the blocked Read is ready
ReadCanReturn == copy.pc = "select" \/ reader.done \/ writer.done \/ rd.tmo

\* C6: once the peer has closed the channel, every byte is consumed, the copy
\* goroutine has ended and Close was not called, a Read does not stay blocked
C6_ReadSeesPeerClose ==
    (/\ peer = "closed" /\ chBuf = <<>>
     /\ copy.pc = "done" /\ copy.buf = <<>>
     /\ closeCalls = 0
     /\ rd.pc = "select") => ReadCanReturn

\* C7: a deadline call with a time in the past that succeeds leaves the read
\* deadline expired; a Read that finds both pipe ends open and the deadline
\* expired returns at once with no data and the timeout error, which is none
\* of the errors of a closed stream; a Read in its select when the deadline
\* expires has the timeout case ready
C7_PastDeadlineTimesOut ==
    /\ (obs.op \in {"SetDeadline", "SetReadDeadline"} /\ obs.t = "past"
        /\ obs.err = Nil) => reader.rd = "expired"
    /\ (obs.op = "Read" /\ ~obs.blocked /\ obs.open /\ obs.dl = "expired") =>
           /\ obs.n = 0
           /\ obs.err = "ErrDeadlineExceeded"
           /\ obs.err \notin StreamClosedErrors
    /\ (rd.pc = "select" /\ reader.rd = "expired") => rd.tmo

\* a Read has timed out at once while the copy goroutine was offering bytes
C7_Witness ==
    /\ obs.op = "Read" /\ ~obs.blocked /\ obs.open /\ obs.dl = "expired"
    /\ obs.err = "ErrDeadlineExceeded"
    /\ copy.pc = "select" /\ copy.buf # <<>>

\* C8: SetWriteDeadline returns nil and changes nothing
C8_SetWriteDeadlineNoOp ==
    [][obs'.op = "SetWriteDeadline" =>
           obs'.err = Nil /\ UNCHANGED coreVars]_vars

\* SetWriteDeadline with a past time has returned on a closed connection
C8_Witness ==
    /\ obs.op = "SetWriteDeadline" /\ obs.t = "past" /\ obs.late
    /\ obs.err = Nil

\* whether the call in obs returned an error
ReturnedError == IF obs.op = "Close" THEN obs.res # <<>> ELSE obs.err # Nil

C10_WriteIsChannelWrite ==
    [][obs'.op = "Write" =>
           /\ UNCHANGED <<pipeVars, copy, rd, delivered, chBuf>>
           /\ obs'.n = obs'.ch.n
           /\ obs'.err = obs'.ch.err]_vars

\* a Write has succeeded on the open channel with the read deadline expired
\* and bytes pending for Read
C10_Witness ==
    /\ obs.op = "Write" /\ obs.err = Nil /\ obs.n = 2
    /\ reader.rd = "expired"
    /\ copy.pc = "select"
    /\ ~chClosed

\* closers past c.mu.Lock() and not yet returned
InsideClose == {c \in Closers : cl[c].pc \in {"ch", "reader", "writer", "conn"}}

\* C11: with several Close calls in progress, at most one of them is between
\* its first and its last close step, and it is the one that holds the guard;
\* the others wait at the guard or have not begun
C11_CloseIsCriticalSection ==
    /\ Cardinality(InsideClose) <= 1
    /\ \A c \in Closers : (c \in InsideClose) <=> (mu = c)

\* one Close call is past the read end's close while another waits at the guard
C11_Witness ==
    /\ cl["c1"].pc = "writer"
    /\ cl["c2"].pc = "lock"
    /\ reader.done /\ ~writer.done

\* Close calls whose c.Channel.Close() has been made
PastChannelClose ==
    closeCalls - Cardinality({c \in Closers : cl[c].pc \in {"lock", "ch"}})

\* C12 as stated: however many Close calls are made, the channel's close
\* operation is invoked once and no more
C12_Original == chCloseCalls <= 1 /\ (closedOnce => chCloseCalls = 1)

\* C12: every Close call invokes the channel's close operation exactly once,
\* as its first step: the invocations number the Close calls past that step,
\* and a later Close call invokes it again on the closed channel
C12_ChannelCloseOncePerCall ==
    /\ chCloseCalls = PastChannelClose
    /\ closedOnce => chCloseCalls >= 1
    /\ (obs.op = "Close" /\ obs.late) =>
           chCloseCalls >= 2 /\ obs.att[1] = <<"channel", "EOF">>

\* a second Close call has returned after invoking the channel's close again
C12_Witness ==
    /\ obs.op = "Close" /\ obs.late
    /\ chCloseCalls = 2
    /\ CloseReturns = 2

\* C13: a Close call never waits for the copy goroutine or for a Read or
\* Write: once past the guard its next close step can be taken whatever the
\* copy goroutine and the Read caller are doing, and a call at the guard
\* waits only for another Close call that is itself past the guard
C13_CloseNeverWaits ==
    \A c \in Closers :
        /\ (Ready /\ c \in InsideClose) => ENABLED CloseStep(c)
        /\ (Ready /\ cl[c].pc = "lock") =>
               \/ ENABLED CloseStep(c)
               \/ \E d \in InsideClose : d # c

\* a first Close call has returned while the copy goroutine was blocked
\* reading the channel and a Read was blocked in the pipe
C13_Witness ==
    /\ obs.op = "Close" /\ ~obs.late
    /\ copy.pc = "read" /\ chBuf = <<>>
    /\ rd.pc = "select"

\* C14: once a Close call has been made the copy goroutine ends: blocked
\* reading the channel, blocked writing the pipe or about to take one more
\* step, it reaches its end; a write it begins after Close has returned fails
\* at once with the closed-pipe error
C14_CopyEndsAfterClose ==
    /\ (closeCalls > 0) ~> (copy.pc = "done")
    /\ [](closedOnce /\ copy.pc = "write" => PipeWriteCheck = "ErrClosedPipe")

\* Close has returned and the copy goroutine has ended with the closed-pipe
\* error on the chunk it was blocked writing
C14_Witness ==
    /\ closedOnce
    /\ copy.pc = "done" /\ copy.err = "ErrClosedPipe"
    /\ copy.buf # <<>>

\* the open/closed state of the channel and of the two pipe ends
OpenState == <<chClosed, reader.done, writer.done>>

\* C15: no step of the copy goroutine, its last one included, changes the
\* open/closed state of the channel, the pipe's read end or its feed end,
\* and it never invokes the channel's close; that state changes only in a
\* close step of a Close call
C15_CopyClosesNothing ==
    [][/\ copy' # copy => UNCHANGED <<OpenState, chCloseCalls, connVars>>
       /\ OpenState' # OpenState =>
              \E c \in InsideClose : cl'[c] # cl[c] /\ copy' = copy]_vars

\* the copy goroutine has ended on the peer's end of stream with the channel
\* and both pipe ends still open
C15_Witness ==
    /\ copy.pc = "done" /\ copy.err = Nil
    /\ peer = "closed"
    /\ OpenState = <<FALSE, FALSE, FALSE>>

\* C16: with Close never called, no read deadline expiring and the caller
\* issuing Reads again and again, every byte the peer wrote, those written
\* before it closed the channel included, is in time returned by a Read, in
\* the order written
C16_EveryByteDelivered ==
    \A n \in 1..MaxWritten :
        (Len(written) >= n) ~>
            (Len(delivered) >= n /\ IsPrefix(delivered, written))

\* a Read has returned the last pending bytes after the peer closed the
\* channel, on a ChConn never closed
C16_Witness ==
    /\ obs.op = "Read" /\ obs.n >= 1
    /\ peer = "closed"
    /\ delivered = written /\ Len(written) = MaxWritten
    /\ closeCalls = 0 /\ reader.rd # "expired"

\* what the closes of a Close call report on a ChConn already closed
LateCloseAttempts ==
    IF exclusive
    THEN <<(<<"channel", "EOF">>), (<<"reader", Nil>>), (<<"writer", Nil>>),
           (<<"conn", "ErrConnClosed">>)>>
    ELSE <<(<<"channel", "EOF">>), (<<"reader", Nil>>), (<<"writer", Nil>>)>>

\* C17: a Close call made after an earlier Close call returned attempts the
\* channel, the read end, the write end and, when exclusive, the parent
\* again in that order, returns the aggregate of exactly the errors those
\* closed resources report, and leaves every one of them closed
C17_LateCloseIsSafe ==
    (obs.op = "Close" /\ obs.late) =>
        /\ obs.att = LateCloseAttempts
        /\ obs.res = Failures(LateCloseAttempts)
        /\ chClosed /\ reader.done /\ writer.done
        /\ exclusive => connClosed

\* a Close call made after an exclusive Close returned has returned the
\* errors of the closed channel and of the closed parent
C17_Witness ==
    /\ obs.op = "Close" /\ obs.late
    /\ exclusive
    /\ obs.res = <<"EOF", "ErrConnClosed">>
    /\ CloseReturns = 2

\* C18: the copy goroutine holds at most one chunk: it takes bytes from the
\* channel only while it holds none, the bytes it takes are the head of the
\* channel's pending bytes, and what the peer wrote is at every moment the
\* bytes returned by Read, then the chunk held, then the bytes still pending
\* in the channel
C18_Backpressure ==
    [][/\ Len(chBuf') < Len(chBuf) =>
              /\ copy.buf = <<>>
              /\ copy'.buf # <<>>
              /\ chBuf = copy'.buf \o chBuf'
       /\ written' = delivered' \o copy'.buf \o chBuf'
       /\ copy'.pc = "read" => copy'.buf = <<>>]_vars

\* the copy goroutine waits in the pipe with a chunk no Read has taken while
\* a later byte is pending in the channel
C18_Witness ==
    /\ copy.pc = "select"
    /\ copy.buf = <<1>>
    /\ chBuf = <<2>>
    /\ delivered = <<>>

\* the bytes of the stream: written by the peer, pending in the channel, held
\* by the copy goroutine, returned by Read
StreamBytes == <<written, chBuf, copy, delivered>>

\* C19: a Read that returns the timeout error returns no byte and consumes
\* none: neither the step at which it enters the pipe nor the step at which
\* it returns changes the bytes pending in the channel, the chunk held by the
\* copy goroutine or the bytes delivered, so later Reads get them
C19_TimeoutConsumesNothing ==
    [][/\ (obs'.op = "Read" /\ obs'.err = "ErrDeadlineExceeded") =>
              obs'.n = 0 /\ UNCHANGED StreamBytes
       /\ (rd.pc = "idle" /\ rd'.pc = "select") => UNCHANGED StreamBytes]_vars

\* a Read blocked in the pipe has timed out while the copy goroutine was
\* offering it a chunk
C19_Witness ==
    /\ obs.op = "Read" /\ obs.err = "ErrDeadlineExceeded" /\ obs.blocked
    /\ copy.pc = "select" /\ copy.buf # <<>>
    /\ ~reader.done /\ ~writer.done

\* C20: read deadlines touch the caller's end of the pipe only: a step that
\* sets a deadline or on which one expires leaves the copy goroutine and the
\* writer end as they were, the writer end never has a deadline, and the
\* copy goroutine ends only on the channel's end of stream or read error at
\* its read, or with the closed-pipe error once Close closed a pipe end
C20_DeadlinesLeaveCopyAlone ==
    [][/\ (obs'.op \in {"SetDeadline", "SetReadDeadline"}
              \/ reader'.rd # reader.rd) => UNCHANGED <<copy, writer>>
       /\ writer'.wd = "none"
       /\ (copy'.pc = "done" /\ copy.pc # "done") =>
              \/ /\ copy.pc = "read"
                 /\ copy'.err \in ChReadEndOutcomes
                 /\ chBuf = <<>> /\ (chClosed \/ peer # "open")
              \/ /\ copy.pc \in {"write", "select"}
                 /\ copy'.err = "ErrClosedPipe"
                 /\ reader.done \/ writer.done]_vars

\* SetDeadline has set a deadline in the past while the copy goroutine was
\* blocked writing a chunk, and the goroutine is still blocked there
C20_Witness ==
    /\ obs.op = "SetDeadline" /\ obs.t = "past" /\ obs.err = Nil
    /\ reader.rd = "expired"
    /\ copy.pc = "select" /\ copy.buf # <<>>
    /\ writer.wd = "none"

====
